---- MODULE Spec2Model ----
(***************************************************************************)
(* Model of the 2D sound simulation core (src/sound_sim_v3/sim_core.py):   *)
(* the Canvas object, the input operations add_pulse,                      *)
(* add_persistent_source, remove_persistent_source, their dispatcher       *)
(* handle_input, and the stepper advance_canvas; and of the event loop of  *)
(* the interactive programs src/sound_sim_v3/main.py and src/main.py.      *)
(*                                                                         *)
(* float32 cells are modelled as a finite-precision number format: the     *)
(* finite values are the integers -FMax..FMax, counted in units of         *)
(* 1/Scale, every arithmetic operation rounds its exact result to the      *)
(* nearest unit and overflows to +Inf / -Inf beyond FMax, and NaN, +Inf    *)
(* and -Inf follow the IEEE rules.  Python float arguments (sound_speed,   *)
(* dt, damping, ...) are exact fractions <<numerator, denominator>>.       *)
(*                                                                         *)
(* canvas.pressure and canvas.prev_pressure hold references to ndarray     *)
(* objects: the model keeps the arrays in mem and the two fields are       *)
(* indexes into it, so that aliasing of the two buffers is expressible.    *)
(***************************************************************************)
EXTENDS Integers, Sequences, FiniteSets, TLC

VARIABLES
    made,                \* a Canvas object exists
    width, height,       \* canvas.width, canvas.height
    pressure,            \* canvas.pressure      (reference into mem)
    prev_pressure,       \* canvas.prev_pressure (reference into mem)
    persistent_sources,  \* canvas.persistent_sources (Python list of tuples)
    mem,                 \* the ndarray objects, by reference
    call,                \* the most recent call: operation, arguments, outcome
    old,                 \* canvas contents immediately before the most recent call
    shadow,              \* contents of canvas.pressure before the most recent advance_canvas
    nops,                \* number of calls made so far
    \* the interactive programs (src/sound_sim_v3/main.py, src/main.py)
    pc,                  \* position of main(): "idle", "while", "for", "draw", "done"
    program,             \* which of the two programs runs
    queue,               \* the pygame event queue
    events,              \* what is left of the list pygame.event.get() returned
    current_mode,        \* local variable mode
    running,             \* local variable running
    timestep,            \* local variable timestep
    frames,              \* iterations of the while loop begun so far
    fetched,             \* events returned by pygame.event.get() in this iteration
    handled,             \* events the for loop has been through in this iteration
    advances,            \* advance_canvas calls made by the loop so far
    reads,               \* reads of canvas.pressure for display so far
    displayed,           \* the array contents pressure_to_image was last given
    posted               \* events put on the queue so far

\* the canvas and its history
core == <<made, width, height, pressure, prev_pressure, persistent_sources,
          mem, call, old, shadow, nops>>

\* the state of main()
drv == <<pc, program, queue, events, current_mode, running, timestep, frames, fetched,
         handled, advances, reads, displayed, posted>>

vars == <<made, width, height, pressure, prev_pressure, persistent_sources,
          mem, call, old, shadow, nops,
          pc, program, queue, events, current_mode, running, timestep, frames, fetched,
          handled, advances, reads, displayed, posted>>

----------------------------------------------------------------------------
(* Bounds of the model *)

\* largest finite cell value, in units (stands for the float32 maximum)
FMax == 1000000
\* units per 1.0
Scale == 1000
\* calls per behaviour after construction
MaxOps == 2
\* calls per behaviour after construction, when only the source list is exercised
MaxSourceOps == 3

----------------------------------------------------------------------------
(* Finite-precision numbers *)

PInf == FMax + 1
NInf == 0 - (FMax + 1)
NaN == FMax + 2

IsNaN(a) == a = NaN
IsInf(a) == a = PInf \/ a = NInf
IsFinite(a) == a >= 0 - FMax /\ a <= FMax

\* sign of a non-NaN value
Sgn(a) == IF a > 0 THEN 1 ELSE IF a < 0 THEN -1 ELSE 0

\* an exact integer result stored into a cell: overflow gives an infinity
Fit(n) == IF n > FMax THEN PInf ELSE IF n < 0 - FMax THEN NInf ELSE n

\* n / d rounded to the nearest integer, d > 0
RoundDiv(n, d) ==
    IF n >= 0 THEN (2 * n + d) \div (2 * d)
    ELSE 0 - ((2 * (0 - n) + d) \div (2 * d))

FAdd(a, b) ==
    IF IsFinite(a) /\ IsFinite(b) THEN Fit(a + b)
    ELSE IF IsNaN(a) \/ IsNaN(b) THEN NaN
    ELSE IF IsInf(a) /\ IsInf(b) THEN (IF a = b THEN a ELSE NaN)
    ELSE IF IsInf(a) THEN a
    ELSE b

FNeg(a) == IF IsNaN(a) THEN NaN ELSE 0 - a

FSub(a, b) == FAdd(a, FNeg(b))

\* cell value times the Python float q = <<numerator, denominator>>, denominator > 0
FMulQ(a, q) ==
    IF IsFinite(a) THEN Fit(RoundDiv(a * q[1], q[2]))
    ELSE IF IsNaN(a) THEN NaN
    ELSE IF q[1] = 0 THEN NaN
    ELSE IF Sgn(a) * Sgn(q[1]) > 0 THEN PInf ELSE NInf

\* cell value divided by the Python float q > 0
FDivQ(a, q) == FMulQ(a, <<q[2], q[1]>>)

\* Python float arithmetic on exact fractions
QMul(p, q) == <<p[1] * q[1], p[2] * q[2]>>
QInt(n) == <<n, 1>>
QEq(p, q) == p[1] * q[2] = q[1] * p[2]

\* a Python float stored into (or added to) a float32 cell
QToCell(q) == Fit(RoundDiv(q[1] * Scale, q[2]))

----------------------------------------------------------------------------
(* ndarrays of shape (w, h), in numpy's row-major layout: element [i, j] is *)
(* at position i * h + j                                                   *)

Cells(w, h) == 0 .. w * h - 1
At(i, j, h) == i * h + j
RowOf(c, h) == c \div h
ColOf(c, h) == c % h

\* np.zeros((w, h), dtype=np.float32)
Zeros(w, h) == [c \in Cells(w, h) |-> 0]

----------------------------------------------------------------------------
(* The record of a call *)

None == << >>
Some(c) == <<c>>

NoArgs ==
    [x |-> 0, y |-> 0, amplitude |-> 0, radius |-> 0, mode |-> "", boundary |-> "",
     clip |-> None, cfg |-> << >>]

Called(op, args, err) == [op |-> op, args |-> args, err |-> err]

\* canvas contents as seen through the object's fields
Snapshot ==
    [pressure |-> IF made THEN mem[pressure] ELSE << >>,
     prev_pressure |-> IF made THEN mem[prev_pressure] ELSE << >>,
     persistent_sources |-> persistent_sources]

----------------------------------------------------------------------------
(* Canvas.__init__ *)

Init ==
    /\ made = FALSE
    /\ width = 0
    /\ height = 0
    /\ pressure = 0
    /\ prev_pressure = 0
    /\ persistent_sources = << >>
    /\ mem = << >>
    /\ call = Called("", NoArgs, "none")
    /\ old = [pressure |-> << >>, prev_pressure |-> << >>, persistent_sources |-> << >>]
    /\ shadow = << >>
    /\ nops = 0
    /\ pc = "idle"
    /\ program = ""
    /\ queue = << >>
    /\ events = << >>
    /\ current_mode = ""
    /\ running = FALSE
    /\ timestep = 0
    /\ frames = 0
    /\ fetched = 0
    /\ handled = 0
    /\ advances = 0
    /\ reads = 0
    /\ displayed = << >>
    /\ posted = 0

\* Canvas(w, h): two fresh zero arrays and an empty source list; no check of w, h
Canvas(w, h) ==
    /\ ~made
    /\ made' = TRUE
    /\ width' = w
    /\ height' = h
    /\ mem' = <<Zeros(w, h), Zeros(w, h)>>
    /\ pressure' = 1
    /\ prev_pressure' = 2
    /\ persistent_sources' = << >>
    /\ call' = Called("Canvas", [NoArgs EXCEPT !.x = w, !.y = h], "none")
    /\ old' = Snapshot
    /\ shadow' = Zeros(w, h)
    /\ UNCHANGED nops

----------------------------------------------------------------------------
(* Input operations *)

InGrid(x, y) == 0 <= x /\ x < width /\ 0 <= y /\ y < height

\* (variant) the amplitude is added to the cell of every array
PulseMemBoth(m, ref, x, y, amplitude) ==
    [k \in DOMAIN m |-> [m[k] EXCEPT ![At(x, y, height)] = FAdd(@, amplitude)]]

\* (variant) the two indexes exchanged: pressure[y, x] += amplitude
PulseMemSwapped(m, ref, x, y, amplitude) ==
    [m EXCEPT ![ref] = [@ EXCEPT ![At(y, x, height)] = FAdd(@, amplitude)]]

\* pressure[x, y] += amplitude, on the array the field pressure refers to
PulseMem(m, ref, x, y, amplitude) ==
    [m EXCEPT ![ref] = [@ EXCEPT ![At(x, y, height)] = FAdd(@, amplitude)]]

\* add_pulse(canvas, x, y, amplitude)
AddPulse(x, y, amplitude) ==
    /\ made
    /\ mem' = IF InGrid(x, y) THEN PulseMem(mem, pressure, x, y, amplitude) ELSE mem
    /\ call' = Called("add_pulse", [NoArgs EXCEPT !.x = x, !.y = y, !.amplitude = amplitude],
                      "none")
    /\ old' = Snapshot
    /\ nops' = nops + 1
    /\ UNCHANGED <<made, width, height, pressure, prev_pressure, persistent_sources, shadow>>

\* (x, y) in canvas.persistent_sources
Member(s, x, y) == \E i \in 1 .. Len(s) : s[i] = <<x, y>>

\* (variant) append without the membership test
AddedSourceAlways(s, x, y) == Append(s, <<x, y>>)

\* the list after add_persistent_source: append unless already present
AddedSource(s, x, y) == IF Member(s, x, y) THEN s ELSE Append(s, <<x, y>>)

\* add_persistent_source(canvas, x, y)
AddPersistentSource(x, y) ==
    /\ made
    /\ persistent_sources' = AddedSource(persistent_sources, x, y)
    /\ call' = Called("add_persistent_source", [NoArgs EXCEPT !.x = x, !.y = y], "none")
    /\ old' = Snapshot
    /\ nops' = nops + 1
    /\ UNCHANGED <<made, width, height, pressure, prev_pressure, mem, shadow>>

\* np.hypot(x - sx, y - sy), kept as its square: on integer arguments the square
\* root is strictly increasing, so order and equality of distances are those of
\* their squares
Hypot2(x, y, src) == (x - src[1]) * (x - src[1]) + (y - src[2]) * (y - src[2])

\* [np.hypot(x - sx, y - sy) for (sx, sy) in canvas.persistent_sources]
Dists(s, x, y) == [i \in 1 .. Len(s) |-> Hypot2(x, y, s[i])]

\* int(np.argmin(dists)): the first index of a smallest element (1-based here)
ArgMin(d) ==
    CHOOSE i \in 1 .. Len(d) :
        /\ \A j \in 1 .. Len(d) : d[i] <= d[j]
        /\ \A j \in 1 .. i - 1 : d[j] > d[i]

\* (variant) the strict comparison dists[imin] < radius
WithinRadiusStrict(d2, radius) == radius > 0 /\ d2 < radius * radius

\* dists[imin] <= radius
WithinRadius(d2, radius) == radius >= 0 /\ d2 <= radius * radius

\* list.pop(i)
Pop(s, i) == [k \in 1 .. Len(s) - 1 |-> IF k < i THEN s[k] ELSE s[k + 1]]

\* the list after remove_persistent_source
RemovedSource(s, x, y, radius) ==
    IF s = << >> THEN s
    ELSE LET dists == Dists(s, x, y)
             imin == ArgMin(dists)
         IN  IF WithinRadius(dists[imin], radius) THEN Pop(s, imin) ELSE s

\* remove_persistent_source(canvas, x, y, radius)
RemovePersistentSource(x, y, radius) ==
    /\ made
    /\ persistent_sources' = RemovedSource(persistent_sources, x, y, radius)
    /\ call' = Called("remove_persistent_source",
                      [NoArgs EXCEPT !.x = x, !.y = y, !.radius = radius], "none")
    /\ old' = Snapshot
    /\ nops' = nops + 1
    /\ UNCHANGED <<made, width, height, pressure, prev_pressure, mem, shadow>>

\* amplitude of add_pulse when none is passed: 5.0, in units
DefaultAmplitude == 5 * Scale

\* radius of remove_persistent_source when none is passed
DefaultRadius == 2

\* (variant) the branches for "consistent" and "remove" exchanged
DispatchSwapped(mode) ==
    IF mode = "pulse" THEN "add_pulse"
    ELSE IF mode = "consistent" THEN "remove_persistent_source"
    ELSE IF mode = "remove" THEN "add_persistent_source"
    ELSE "raise"

\* the if / elif chain of handle_input: the operation a mode string selects
Dispatch(mode) ==
    IF mode = "pulse" THEN "add_pulse"
    ELSE IF mode = "consistent" THEN "add_persistent_source"
    ELSE IF mode = "remove" THEN "remove_persistent_source"
    ELSE "raise"

\* handle_input(canvas, x, y, mode): the selected operation with its default
\* amplitude or radius; ValueError for any other mode
HandleInput(x, y, mode) ==
    /\ made
    /\ mem' = IF Dispatch(mode) = "add_pulse" /\ InGrid(x, y)
              THEN PulseMem(mem, pressure, x, y, DefaultAmplitude)
              ELSE mem
    /\ persistent_sources' =
          IF Dispatch(mode) = "add_persistent_source"
          THEN AddedSource(persistent_sources, x, y)
          ELSE IF Dispatch(mode) = "remove_persistent_source"
          THEN RemovedSource(persistent_sources, x, y, DefaultRadius)
          ELSE persistent_sources
    /\ call' = Called("handle_input", [NoArgs EXCEPT !.x = x, !.y = y, !.mode = mode],
                      IF Dispatch(mode) = "raise" THEN "ValueError" ELSE "none")
    /\ old' = Snapshot
    /\ nops' = nops + 1
    /\ UNCHANGED <<made, width, height, pressure, prev_pressure, shadow>>

----------------------------------------------------------------------------
(* advance_canvas: array helpers *)

\* Python's i % n for n > 0
Wrap(i, n) == ((i % n) + n) % n

\* np.roll(A, shift, axis): element (i, j) comes from (i - shift, j) on axis 0
Roll(A, shift, axis, w, h) ==
    [c \in Cells(w, h) |->
        IF axis = 0 THEN A[At(Wrap(RowOf(c, h) - shift, w), ColOf(c, h), h)]
        ELSE A[At(RowOf(c, h), Wrap(ColOf(c, h) - shift, h), h)]]

\* elementwise A + B, A - B, A * q, A / q
ArrAdd(A, B) == [c \in DOMAIN A |-> FAdd(A[c], B[c])]
ArrSub(A, B) == [c \in DOMAIN A |-> FSub(A[c], B[c])]
ArrMulQ(A, q) == [c \in DOMAIN A |-> FMulQ(A[c], q)]
ArrDivQ(A, q) == [c \in DOMAIN A |-> FDivQ(A[c], q)]

\* the 8-neighbour Laplacian, summed in the order the expression is written
Laplacian(P, dx, w, h) ==
    LET s1 == ArrAdd(Roll(P, 1, 0, w, h), Roll(P, -1, 0, w, h))
        s2 == ArrAdd(s1, Roll(P, 1, 1, w, h))
        s3 == ArrAdd(s2, Roll(P, -1, 1, w, h))
        s4 == ArrAdd(s3, Roll(Roll(P, 1, 0, w, h), 1, 1, w, h))
        s5 == ArrAdd(s4, Roll(Roll(P, 1, 0, w, h), -1, 1, w, h))
        s6 == ArrAdd(s5, Roll(Roll(P, -1, 0, w, h), 1, 1, w, h))
        s7 == ArrAdd(s6, Roll(Roll(P, -1, 0, w, h), -1, 1, w, h))
        s8 == ArrSub(s7, ArrMulQ(P, QInt(8)))
    IN  ArrDivQ(s8, QMul(QInt(3), QMul(dx, dx)))

\* P_next = (2.0 * P - P_prev) + coeff * laplacian
Leapfrog(P, P_prev, coeff, laplacian) ==
    ArrAdd(ArrSub(ArrMulQ(P, QInt(2)), P_prev), ArrMulQ(laplacian, coeff))

\* sin(2 pi k / 100) for k = 0 .. 25, in thousandths, rounded to nearest
SinTable ==
    <<0, 63, 125, 187, 249, 309, 368, 426, 482, 536, 588, 637, 685, 729, 771,
      809, 844, 876, 905, 930, 951, 969, 982, 992, 998, 1000>>

\* np.sin(2 pi * turns) for turns in hundredths of a turn, by the symmetries
\* of the sine
SinTurns(turns) ==
    LET k == Wrap((100 * turns[1]) \div turns[2], 100)
        m == IF k <= 25 THEN SinTable[k + 1]
             ELSE IF k <= 50 THEN SinTable[51 - k]
             ELSE IF k <= 75 THEN -SinTable[k - 49]
             ELSE -SinTable[101 - k]
    IN  <<m, 1000>>

\* s_val = source_amp * np.sin(2.0 * np.pi * source_freq * t_cont)
SVal(source_amp, source_freq, t_cont) ==
    QMul(source_amp, SinTurns(QMul(source_freq, t_cont)))

\* for (sx, sy) in sources[i..]: if in the grid: P_next[sx, sy] += s_val
RECURSIVE Inject(_, _, _, _, _, _)
Inject(A, srcs, i, s_val, w, h) ==
    IF i > Len(srcs) THEN A
    ELSE LET sx == srcs[i][1]
             sy == srcs[i][2]
             B == IF 0 <= sx /\ sx < w /\ 0 <= sy /\ sy < h
                  THEN [A EXCEPT ![At(sx, sy, h)] = FAdd(@, QToCell(s_val))]
                  ELSE A
         IN  Inject(B, srcs, i + 1, s_val, w, h)

\* (variant) only the first entry of the list is driven
WithSourcesFirstOnly(A, srcs, source_amp, source_freq, t_cont, w, h) ==
    IF srcs # << >> /\ source_amp[1] # 0
    THEN Inject(A, <<srcs[1]>>, 1, SVal(source_amp, source_freq, t_cont), w, h)
    ELSE A

\* the source step: skipped when the list is empty or source_amp == 0.0
WithSources(A, srcs, source_amp, source_freq, t_cont, w, h) ==
    IF srcs # << >> /\ source_amp[1] # 0
    THEN Inject(A, srcs, 1, SVal(source_amp, source_freq, t_cont), w, h)
    ELSE A

\* (variant) damping added to every cell instead of multiplying it
DampedAdd(A, damping) ==
    IF ~QEq(damping, QInt(1))
    THEN [c \in DOMAIN A |-> FAdd(A[c], QToCell(damping))]
    ELSE A

\* if damping != 1.0: P_next *= damping
Damped(A, damping) == IF ~QEq(damping, QInt(1)) THEN ArrMulQ(A, damping) ELSE A

\* a Python index into an axis of length n; negative counts from the end
Idx(i, n) == IF i < 0 THEN i + n ELSE i
IdxOk(i, n) == 0 <= Idx(i, n) /\ Idx(i, n) < n

\* A[i, :] = v   and   A[:, j] = v
SetRow(A, i, v, w, h) == [c \in DOMAIN A |-> IF RowOf(c, h) = Idx(i, w) THEN v ELSE A[c]]
SetCol(A, j, v, w, h) == [c \in DOMAIN A |-> IF ColOf(c, h) = Idx(j, h) THEN v ELSE A[c]]

\* A[i, :] = A[k, :]   and   A[:, j] = A[:, k]
CopyRow(A, i, k, w, h) ==
    [c \in DOMAIN A |->
        IF RowOf(c, h) = Idx(i, w) THEN A[At(Idx(k, w), ColOf(c, h), h)] ELSE A[c]]
CopyCol(A, j, k, w, h) ==
    [c \in DOMAIN A |->
        IF ColOf(c, h) = Idx(j, h) THEN A[At(RowOf(c, h), Idx(k, h), h)] ELSE A[c]]

\* (variant) the last column is not overwritten
FixedBoundaryOpenColumn(A, w, h) ==
    SetCol(SetRow(SetRow(A, 0, 0, w, h), -1, 0, w, h), 0, 0, w, h)

\* boundary == "fixed"
FixedBoundary(A, w, h) ==
    SetCol(SetCol(SetRow(SetRow(A, 0, 0, w, h), -1, 0, w, h), 0, 0, w, h), -1, 0, w, h)

\* (variant) the last row mirrors row 1 instead of row -2
ReflectiveBoundaryWrongRow(A, w, h) ==
    CopyCol(CopyCol(CopyRow(CopyRow(A, 0, 1, w, h), -1, 1, w, h), 0, 1, w, h), -1, -2, w, h)

\* boundary == "reflective"
ReflectiveBoundary(A, w, h) ==
    CopyCol(CopyCol(CopyRow(CopyRow(A, 0, 1, w, h), -1, -2, w, h), 0, 1, w, h), -1, -2, w, h)

\* the indexing of the boundary step raises IndexError
BoundaryRaises(boundary, w, h) ==
    /\ boundary = "reflective"
    /\ ~(IdxOk(1, w) /\ IdxOk(-2, w) /\ IdxOk(1, h) /\ IdxOk(-2, h))

\* the boundary step: any other string falls through like "periodic"
Bounded(A, boundary, w, h) ==
    IF boundary = "fixed" THEN FixedBoundary(A, w, h)
    ELSE IF boundary = "reflective" THEN ReflectiveBoundary(A, w, h)
    ELSE A

\* np.nan_to_num(a, nan=0.0, posinf=hi, neginf=lo) on one cell
NanToNum(a, hi, lo) ==
    IF IsNaN(a) THEN 0 ELSE IF a = PInf THEN hi ELSE IF a = NInf THEN lo ELSE a

\* np.clip(a, lo, hi) on one cell: minimum(maximum(a, lo), hi); NaN stays NaN
Clip(a, lo, hi) ==
    IF IsNaN(a) THEN NaN
    ELSE IF a < lo THEN (IF lo > hi THEN hi ELSE lo)
    ELSE IF a > hi THEN hi ELSE a

\* (variant) the clip argument is ignored: NaN and infinities are replaced, nothing is clamped
SafeNoClip(A, clip) == [c \in DOMAIN A |-> NanToNum(A[c], FMax, 0 - FMax)]

\* the numerical safety step
Safe(A, clip) ==
    IF clip # None
    THEN [c \in DOMAIN A |-> Clip(NanToNum(A[c], clip[1], 0 - clip[1]), 0 - clip[1], clip[1])]
    ELSE [c \in DOMAIN A |-> NanToNum(A[c], FMax, 0 - FMax)]

\* (variant) the two copies in the other order: P already holds P_next when it is saved
RotateLate(m, p_ref, prev_ref, P_next) ==
    LET m1 == [m EXCEPT ![p_ref] = P_next]
    IN  [m1 EXCEPT ![prev_ref] = m1[p_ref]]

\* the rotation: prev_pressure[:, :] = P, then pressure[:, :] = P_next,
\* where P is the array object pressure refers to
Rotate(m, p_ref, prev_ref, P_next) ==
    LET m1 == [m EXCEPT ![prev_ref] = m[p_ref]]
    IN  [m1 EXCEPT ![p_ref] = P_next]

\* P_next as computed by advance_canvas from the arrays P and P_prev
PNext(P, P_prev, srcs, cfg, w, h) ==
    LET laplacian == Laplacian(P, cfg.dx, w, h)
        coeff == QMul(QMul(cfg.sound_speed, cfg.dt), QMul(cfg.sound_speed, cfg.dt))
        t_cont == QMul(cfg.time, cfg.dt)
        n0 == Leapfrog(P, P_prev, coeff, laplacian)
        n1 == WithSources(n0, srcs, cfg.source_amp, cfg.source_freq, t_cont, w, h)
        n2 == Damped(n1, cfg.damping)
        n3 == Bounded(n2, cfg.boundary, w, h)
    IN  Safe(n3, cfg.clip)

\* advance_canvas(canvas, **cfg)
AdvanceCanvas(cfg) ==
    /\ made
    /\ IF BoundaryRaises(cfg.boundary, width, height)
       THEN /\ call' = Called("advance_canvas",
                              [NoArgs EXCEPT !.boundary = cfg.boundary, !.clip = cfg.clip, !.cfg = cfg],
                              "IndexError")
            /\ UNCHANGED <<mem, shadow>>
       ELSE /\ mem' = Rotate(mem, pressure, prev_pressure,
                             PNext(mem[pressure], mem[prev_pressure], persistent_sources,
                                   cfg, width, height))
            /\ call' = Called("advance_canvas",
                              [NoArgs EXCEPT !.boundary = cfg.boundary, !.clip = cfg.clip, !.cfg = cfg],
                              "none")
            /\ shadow' = mem[pressure]
    /\ old' = Snapshot
    /\ nops' = nops + 1
    /\ UNCHANGED <<made, width, height, pressure, prev_pressure, persistent_sources>>

----------------------------------------------------------------------------
(* The calls a driver makes: arguments drawn from small sets *)

\* shapes passed to Canvas(w, h): one below the 3 x 3 minimum of the design,
\* the minimum itself, and one with a fourth row or column
Shapes == {<<1, 2>>, <<3, 3>>, <<3, 4>>, <<4, 3>>}

\* grid coordinates of a tap: corner, interior, edge, and two misses
Taps == {<<0, 0>>, <<1, 1>>, <<width - 1, height - 2>>, <<-1, 1>>, <<1, height>>}

\* amplitude of add_pulse, in units: the default 5.0, the largest finite value,
\* +Inf and NaN
Amplitudes == {DefaultAmplitude, FMax, PInf, NaN}

\* coordinates of persistent sources: corner, interior, and a miss
SourceTaps == {<<0, 0>>, <<1, 1>>, <<width, 1>>}

\* radius of remove_persistent_source: the default 2, and 0
Radii == {0, DefaultRadius}

Boundaries == {"periodic", "fixed", "reflective", "absorbing"}

\* clip: disabled, 0.0, and the driver's 50.0
Clips == {None, Some(0), Some(50 * Scale)}

\* the defaults of advance_canvas, at step 25: with the default dt and
\* source_freq the source phase is then a quarter turn
DefaultCfg ==
    [sound_speed |-> <<1, 2>>, damping |-> <<499, 500>>, time |-> QInt(25),
     dt |-> <<1, 5>>, dx |-> QInt(1), dy |-> QInt(1), source_amp |-> QInt(1),
     source_freq |-> <<1, 20>>, clip |-> Some(100 * Scale), boundary |-> "reflective"]

\* a configuration that violates the CFL condition, without damping, at a
\* source phase of three quarter turns
UnstableCfg ==
    [DefaultCfg EXCEPT !.sound_speed = QInt(2), !.dt = QInt(1), !.damping = QInt(1),
                       !.source_freq = <<1, 4>>, !.time = QInt(3)]

Cfgs ==
    {[base EXCEPT !.boundary = b, !.clip = c] :
        base \in {DefaultCfg, UnstableCfg}, b \in Boundaries, c \in Clips}

Next ==
    \/ \E s \in Shapes : Canvas(s[1], s[2]) /\ UNCHANGED drv
    \/ \E t \in Taps, a \in Amplitudes : nops < MaxOps /\ AddPulse(t[1], t[2], a) /\ UNCHANGED drv
    \/ \E t \in SourceTaps : nops < MaxOps /\ AddPersistentSource(t[1], t[2]) /\ UNCHANGED drv
    \/ \E r \in Radii : nops < MaxOps /\ RemovePersistentSource(0, 1, r) /\ UNCHANGED drv
    \/ \E cfg \in Cfgs : nops < MaxOps /\ AdvanceCanvas(cfg) /\ UNCHANGED drv

Spec == Init /\ [][Next]_vars

----------------------------------------------------------------------------
(* The source list alone, on an 11 x 11 grid *)

\* taps on the source list: in the grid and outside it
SourcePoints ==
    {<<0, 0>>, <<10, 10>>, <<1, 1>>, <<5, 5>>, <<0, 2>>, <<-1, 0>>, <<11, 5>>}

SourceRadii == {1, DefaultRadius, 3}

NextSources ==
    \/ Canvas(11, 11) /\ UNCHANGED drv
    \/ \E t \in SourcePoints : nops < MaxSourceOps /\ AddPersistentSource(t[1], t[2]) /\ UNCHANGED drv
    \/ \E t \in SourcePoints, r \in SourceRadii :
          nops < MaxSourceOps /\ RemovePersistentSource(t[1], t[2], r) /\ UNCHANGED drv

SpecSources == Init /\ [][NextSources]_vars

----------------------------------------------------------------------------
(* handle_input alone *)

\* calls per behaviour after construction, when only handle_input is exercised
MaxInputs == 3

\* the three modes of handle_input, and a string that is none of them
Modes == {"pulse", "consistent", "remove", "erase"}

NextInput ==
    \/ \E s \in Shapes : Canvas(s[1], s[2]) /\ UNCHANGED drv
    \/ \E t \in Taps, m \in Modes : nops < MaxInputs /\ HandleInput(t[1], t[2], m) /\ UNCHANGED drv

SpecInput == Init /\ [][NextInput]_vars

----------------------------------------------------------------------------
(* advance_canvas alone, on the grid as constructed *)

\* calls per behaviour after construction, when only advance_canvas is exercised
MaxSteps == 3

\* damping: half, the default 0.998, and 1.0, which skips the multiplication
Dampings == {<<1, 2>>, <<499, 500>>, QInt(1)}

\* time: step 0 and step 25 (a quarter turn of the default source)
Times == {QInt(0), QInt(25)}

FreshCfgs ==
    {[DefaultCfg EXCEPT !.boundary = b, !.clip = c, !.damping = d, !.time = t] :
        b \in Boundaries, c \in {None, Some(50 * Scale)}, d \in Dampings, t \in Times}

NextFresh ==
    \/ \E s \in {<<1, 2>>, <<3, 3>>, <<3, 4>>} : Canvas(s[1], s[2]) /\ UNCHANGED drv
    \/ \E cfg \in FreshCfgs : nops < MaxSteps /\ AdvanceCanvas(cfg) /\ UNCHANGED drv

SpecFresh == Init /\ [][NextFresh]_vars

----------------------------------------------------------------------------
(* pulses, sources and steps on a small torus *)

\* calls per behaviour after construction
MaxWaveOps == 3

\* the leapfrog step alone: no damping, no clip, periodic, for a cell size
StencilCfg(dx, dy) ==
    [DefaultCfg EXCEPT !.damping = QInt(1), !.boundary = "periodic", !.clip = None,
                       !.dx = dx, !.dy = dy]

\* square cells of side 1, and cells of 1 x 2 and 2 x 1; the default step
\* under the fixed and periodic boundaries; a step with source_amp 0.0
WaveCfgs ==
    {StencilCfg(QInt(1), QInt(1)), StencilCfg(QInt(1), QInt(2)),
     StencilCfg(QInt(2), QInt(1)),
     [DefaultCfg EXCEPT !.boundary = "fixed"],
     [DefaultCfg EXCEPT !.boundary = "periodic"],
     [DefaultCfg EXCEPT !.source_amp = QInt(0)]}

NextWave ==
    \/ \E s \in {<<3, 3>>, <<3, 4>>, <<4, 3>>} : Canvas(s[1], s[2]) /\ UNCHANGED drv
    \/ \E t \in {<<0, 0>>, <<1, 1>>} :
          nops < MaxWaveOps /\ AddPulse(t[1], t[2], DefaultAmplitude) /\ UNCHANGED drv
    \/ \E t \in SourceTaps : nops < MaxWaveOps /\ AddPersistentSource(t[1], t[2]) /\ UNCHANGED drv
    \/ \E cfg \in WaveCfgs : nops < MaxWaveOps /\ AdvanceCanvas(cfg) /\ UNCHANGED drv

SpecWave == Init /\ [][NextWave]_vars

----------------------------------------------------------------------------
(* main(): the interactive loop of src/sound_sim_v3/main.py and src/main.py *)

\* side of the square grid of the programs (WIDTH = HEIGHT = 100 there)
DriverSide == 3

\* iterations of the while loop per behaviour
MaxFrames == 3

\* events the user produces per behaviour
MaxEvents == 2

\* the program with the mode buttons, and the one without
Programs == {"sound_sim_v3/main.py", "main.py"}
HasButtons(prog) == prog = "sound_sim_v3/main.py"

\* a pygame event: its type, the key of the mode button under event.pos (""
\* when there is none there) and the grid coordinates event.pos maps to
Quit == [type |-> "QUIT", key |-> "", gx |-> 0, gy |-> 0]
Click(key, gx, gy) == [type |-> "MOUSEBUTTONDOWN", key |-> key, gx |-> gx, gy |-> gy]

\* closing the window, a click on a cell, a click beside the grid, and clicks
\* on the "Consistent" and "Remove" buttons
UserEvents ==
    {Quit, Click("", 1, 1), Click("", -1, 0), Click("consistent", 0, 0),
     Click("remove", 1, 1)}

\* the cells rng.integers may pick for the two initial sources
SetupPoints == {<<0, 0>>, <<1, 1>>}

\* (variant) the step is given the time of the next iteration
DriverCfgAhead(t) ==
    [sound_speed |-> <<1, 2>>, damping |-> <<499, 500>>, time |-> QInt(t + 1),
     dt |-> <<1, 5>>, dx |-> QInt(1), dy |-> QInt(1), source_amp |-> QInt(1),
     source_freq |-> <<1, 20>>, clip |-> Some(50 * Scale), boundary |-> "periodic"]

\* the keyword arguments of the advance_canvas call of the loop
DriverCfg(t) ==
    [sound_speed |-> <<1, 2>>, damping |-> <<499, 500>>, time |-> QInt(t),
     dt |-> <<1, 5>>, dx |-> QInt(1), dy |-> QInt(1), source_amp |-> QInt(1),
     source_freq |-> <<1, 20>>, clip |-> Some(50 * Scale), boundary |-> "periodic"]

\* main() up to the while loop: the canvas, two sources at random cells, and
\* the locals running, timestep, mode
Main(prog, p1, p2) ==
    /\ pc = "idle" /\ ~made
    /\ made' = TRUE
    /\ width' = DriverSide
    /\ height' = DriverSide
    /\ mem' = <<Zeros(DriverSide, DriverSide), Zeros(DriverSide, DriverSide)>>
    /\ pressure' = 1
    /\ prev_pressure' = 2
    /\ persistent_sources' = AddedSource(AddedSource(<< >>, p1[1], p1[2]), p2[1], p2[2])
    /\ call' = Called("add_persistent_source",
                      [NoArgs EXCEPT !.x = p2[1], !.y = p2[2]], "none")
    /\ old' = [pressure |-> Zeros(DriverSide, DriverSide),
               prev_pressure |-> Zeros(DriverSide, DriverSide),
               persistent_sources |-> AddedSource(<< >>, p1[1], p1[2])]
    /\ shadow' = Zeros(DriverSide, DriverSide)
    /\ nops' = nops + 2
    /\ pc' = "while"
    /\ program' = prog
    /\ running' = TRUE
    /\ timestep' = 0
    /\ current_mode' = "pulse"
    /\ UNCHANGED <<queue, events, frames, fetched, handled, advances, reads,
                   displayed, posted>>

\* the user, at any moment: an event is appended to the queue
Post(e) ==
    /\ pc \notin {"idle", "done"}
    /\ posted < MaxEvents
    /\ queue' = Append(queue, e)
    /\ posted' = posted + 1
    /\ UNCHANGED core
    /\ UNCHANGED <<pc, program, events, current_mode, running, timestep, frames, fetched,
                   handled, advances, reads, displayed>>

\* while running: ... pygame.event.get() takes everything off the queue
GetEvents ==
    /\ pc = "while" /\ running
    /\ frames < MaxFrames
    /\ events' = queue
    /\ queue' = << >>
    /\ fetched' = Len(queue)
    /\ handled' = 0
    /\ frames' = frames + 1
    /\ pc' = "for"
    /\ UNCHANGED core
    /\ UNCHANGED <<program, current_mode, running, timestep, advances, reads, displayed, posted>>

\* while running: fails; pygame.quit()
Exit ==
    /\ pc = "while" /\ ~running
    /\ pc' = "done"
    /\ UNCHANGED core
    /\ UNCHANGED <<program, queue, events, current_mode, running, timestep, frames, fetched,
                   handled, advances, reads, displayed, posted>>

\* for event in ...: event.type == pygame.QUIT
EventQuit ==
    /\ pc = "for" /\ events # << >>
    /\ Head(events).type = "QUIT"
    /\ running' = FALSE
    /\ events' = Tail(events)
    /\ handled' = handled + 1
    /\ UNCHANGED core
    /\ UNCHANGED <<pc, program, queue, current_mode, timestep, frames, fetched, advances,
                   reads, displayed, posted>>

\* for event in ...: a click on a mode button (sound_sim_v3/main.py only)
EventButton ==
    /\ pc = "for" /\ events # << >>
    /\ Head(events).type = "MOUSEBUTTONDOWN"
    /\ HasButtons(program) /\ Head(events).key # ""
    /\ current_mode' = Head(events).key
    /\ events' = Tail(events)
    /\ handled' = handled + 1
    /\ UNCHANGED core
    /\ UNCHANGED <<pc, program, queue, running, timestep, frames, fetched, advances,
                   reads, displayed, posted>>

\* for event in ...: any other click; handle_input when it maps into the grid
EventClick ==
    /\ pc = "for" /\ events # << >>
    /\ Head(events).type = "MOUSEBUTTONDOWN"
    /\ ~(HasButtons(program) /\ Head(events).key # "")
    /\ LET gx == Head(events).gx
           gy == Head(events).gy
       IN  IF 0 <= gx /\ gx < DriverSide /\ 0 <= gy /\ gy < DriverSide
           THEN HandleInput(gx, gy, current_mode)
           ELSE UNCHANGED core
    /\ events' = Tail(events)
    /\ handled' = handled + 1
    /\ UNCHANGED <<pc, program, queue, current_mode, running, timestep, frames, fetched,
                   advances, reads, displayed, posted>>

\* after the for loop: advance_canvas(canvas, ..., time=timestep, ...);
\* timestep += 1
Step ==
    /\ pc = "for" /\ events = << >>
    /\ AdvanceCanvas(DriverCfg(timestep))
    /\ timestep' = timestep + 1
    /\ advances' = advances + 1
    /\ pc' = "draw"
    /\ UNCHANGED <<program, queue, events, current_mode, running, frames, fetched, handled,
                   reads, displayed, posted>>

\* pressure_to_image(canvas.pressure, scale), blit, flip, tick
Draw ==
    /\ pc = "draw"
    /\ displayed' = mem[pressure]
    /\ reads' = reads + 1
    /\ pc' = "while"
    /\ UNCHANGED core
    /\ UNCHANGED <<program, queue, events, current_mode, running, timestep, frames, fetched,
                   handled, advances, posted>>

NextDriver ==
    \/ \E prog \in Programs, p1 \in SetupPoints, p2 \in SetupPoints : Main(prog, p1, p2)
    \/ \E e \in UserEvents : Post(e)
    \/ GetEvents
    \/ Exit
    \/ EventQuit
    \/ EventButton
    \/ EventClick
    \/ Step
    \/ Draw

SpecDriver == Init /\ [][NextDriver]_vars

----------------------------------------------------------------------------
(* Properties of advance_canvas *)

\* the arrays behind the two fields, and element [i, j] of an array
P == mem[pressure]
PPrev == mem[prev_pressure]
El(A, i, j) == A[At(i, j, height)]

\* the most recent call was advance_canvas and it returned
Advanced == made /\ call.op = "advance_canvas" /\ call.err = "none"

\* the edge cells of the grid
Edge == {c \in Cells(width, height) :
            \/ RowOf(c, height) = 0 \/ RowOf(c, height) = width - 1
            \/ ColOf(c, height) = 0 \/ ColOf(c, height) = height - 1}

\* C1: with boundary = "fixed", after advance_canvas has returned every cell of
\* row 0, the last row, column 0 and the last column of pressure is exactly 0,
\* whatever the grid held before, wherever the sources are, clip set or None.
C1_FixedEdgesZero ==
    (Advanced /\ call.args.boundary = "fixed") => \A c \in Edge : P[c] = 0

\* C1 witness: a fixed step without clip, taken from a grid whose corner cell
\* was not 0, that leaves an interior cell different from 0
C1_Witness ==
    /\ Advanced
    /\ call.args.boundary = "fixed"
    /\ call.args.clip = None
    /\ width >= 3 /\ height >= 3
    /\ old.pressure[At(0, 0, height)] # 0
    /\ El(P, 1, 1) # 0

\* C2: with boundary = "reflective", after advance_canvas has returned row 0
\* equals row 1, the last row equals the row before it, column 0 equals
\* column 1 and the last column equals the column before it, cell for cell,
\* corners included, also after the clamp.
C2_ReflectiveMirrored ==
    (Advanced /\ call.args.boundary = "reflective") =>
        /\ \A j \in 0 .. height - 1 :
              /\ El(P, 0, j) = El(P, 1, j)
              /\ El(P, width - 1, j) = El(P, width - 2, j)
        /\ \A i \in 0 .. width - 1 :
              /\ El(P, i, 0) = El(P, i, 1)
              /\ El(P, i, height - 1) = El(P, i, height - 2)

\* C2 witness: a reflective, clipped step on a grid of four rows after which
\* rows 1 and 2 differ, so that the two mirrored pairs are different rows
C2_Witness ==
    /\ Advanced
    /\ call.args.boundary = "reflective"
    /\ call.args.clip # None
    /\ width = 4
    /\ El(P, 1, 1) # El(P, 2, 1)
    /\ El(P, 3, 1) # 0

\* C3: after advance_canvas has returned with clip = C, C >= 0, every cell of
\* pressure is a finite value in -C .. C, whatever the grid held before
\* (huge values, infinities, NaN), for every source list and boundary mode.
C3_Clamped ==
    (Advanced /\ call.args.clip # None) =>
        \A c \in Cells(width, height) :
            /\ IsFinite(P[c])
            /\ 0 - call.args.clip[1] <= P[c]
            /\ P[c] <= call.args.clip[1]

\* C3 witness: a clipped step, C > 0, from a grid that held +Inf in one cell:
\* that cell's update is Inf - Inf = NaN and ends as 0, and a cell that became
\* +Inf ends on the clip bound
C3_Witness ==
    /\ Advanced
    /\ call.args.clip # None
    /\ call.args.clip[1] > 0
    /\ width >= 3 /\ height >= 3
    /\ \E c \in Cells(width, height) : old.pressure[c] = PInf /\ P[c] = 0
    /\ \E c \in Cells(width, height) : P[c] = call.args.clip[1]

\* C4: after any sequence of calls prev_pressure holds, cell for cell, what
\* pressure held immediately before the most recent advance_canvas that
\* returned (all zero if there was none), and the two fields never refer to
\* the same array: add_pulse changes pressure and leaves prev_pressure alone.
C4_PrevIsPressureBefore ==
    made =>
        /\ PPrev = shadow
        /\ pressure # prev_pressure
        /\ (call.op = "add_pulse" => PPrev = old.prev_pressure)

\* C4 witness: a step has just replaced a pressure field that was not all zero
\* by a different one
C4_Witness ==
    /\ Advanced
    /\ width >= 3 /\ height >= 3
    /\ shadow # Zeros(width, height)
    /\ P # shadow
    /\ PPrev = old.pressure

----------------------------------------------------------------------------
(* Properties of the source list *)

\* number of entries of the list s equal to <<x, y>>
Count(s, x, y) == Cardinality({i \in 1 .. Len(s) : s[i] = <<x, y>>})

\* C5: after any sequence of add_persistent_source and
\* remove_persistent_source calls no coordinate pair occurs twice in
\* persistent_sources; after add_persistent_source(x, y) the list holds
\* <<x, y>> exactly once, and a call for a pair already present changes nothing.
C5_NoDuplicateSource ==
    /\ \A i, j \in 1 .. Len(persistent_sources) :
          persistent_sources[i] = persistent_sources[j] => i = j
    /\ call.op = "add_persistent_source" =>
          /\ Count(persistent_sources, call.args.x, call.args.y) = 1
          /\ Count(old.persistent_sources, call.args.x, call.args.y) = 1 =>
                persistent_sources = old.persistent_sources

\* C5 witness: add_persistent_source called for a pair that is already in a
\* list of two entries
C5_Witness ==
    /\ call.op = "add_persistent_source"
    /\ Len(old.persistent_sources) = 2
    /\ Count(old.persistent_sources, call.args.x, call.args.y) = 1
    /\ Len(persistent_sources) = 2

\* C6 (as claimed): every entry of persistent_sources lies in
\* [0, width) x [0, height); add_persistent_source outside the grid inserts
\* nothing.
C6_SourcesInGrid ==
    \A i \in 1 .. Len(persistent_sources) :
        InGrid(persistent_sources[i][1], persistent_sources[i][2])

\* the squared distances from the query of the most recent call to the
\* entries of the list before it
QueryDists == Dists(old.persistent_sources, call.args.x, call.args.y)

\* the list s without its i-th entry
Without(s, i) == SubSeq(s, 1, i - 1) \o SubSeq(s, i + 1, Len(s))

\* C7: remove_persistent_source(x, y, radius) removes exactly one entry, one
\* at the smallest Euclidean distance from (x, y), if and only if that
\* smallest distance is <= radius (distance = radius removes); otherwise, and
\* on an empty list, the list is unchanged.  The other entries stay, in order.
C7_RemoveNearest ==
    call.op = "remove_persistent_source" =>
        LET s0 == old.persistent_sources
            r == call.args.radius
            near == {i \in 1 .. Len(s0) : \A j \in 1 .. Len(s0) : QueryDists[i] <= QueryDists[j]}
        IN  IF s0 # << >> /\ \E i \in near : QueryDists[i] <= r * r
            THEN \E i \in near : persistent_sources = Without(s0, i)
            ELSE persistent_sources = s0

\* C7 witness: the example of the design: sources (0,0), (10,10); the query
\* (1,1) with radius 3 removes (0,0) and leaves (10,10)
C7_Witness ==
    /\ call.op = "remove_persistent_source"
    /\ old.persistent_sources = << <<0, 0>>, <<10, 10>> >>
    /\ call.args.x = 1 /\ call.args.y = 1 /\ call.args.radius = 3
    /\ persistent_sources = << <<10, 10>> >>

----------------------------------------------------------------------------
(* Properties of add_pulse, Canvas and the boundary argument *)

\* C8: add_pulse(x, y, amplitude) with (x, y) in the grid adds amplitude to
\* pressure[x, y] (a float32 addition) and changes no other cell; with (x, y)
\* outside the grid, negative coordinates included, it raises nothing and
\* leaves the whole grid as it was.
C8_PulseOneCell ==
    (made /\ call.op = "add_pulse") =>
        LET x == call.args.x
            y == call.args.y
            amplitude == call.args.amplitude
        IN  /\ call.err = "none"
            /\ \A i \in 0 .. width - 1, j \in 0 .. height - 1 :
                  IF i = x /\ j = y
                  THEN /\ El(P, i, j) = FAdd(El(old.pressure, i, j), amplitude)
                       /\ (IsFinite(El(old.pressure, i, j)) /\ IsFinite(amplitude)
                              /\ IsFinite(El(old.pressure, i, j) + amplitude))
                             => El(P, i, j) = El(old.pressure, i, j) + amplitude
                  ELSE El(P, i, j) = El(old.pressure, i, j)
            /\ ~InGrid(x, y) => P = old.pressure

\* C8 witness: a pulse on an edge cell off the diagonal of a grid that already
\* holds a value in another cell
C8_Witness ==
    /\ made /\ call.op = "add_pulse"
    /\ width >= 3 /\ height >= 3
    /\ call.args.x = width - 1 /\ call.args.y = height - 2
    /\ call.args.x # call.args.y
    /\ old.pressure # Zeros(width, height)
    /\ P # old.pressure

\* C9 (as claimed): Canvas(width, height) with width < 3 or height < 3 fails
\* with InvalidDimension and yields no grid; with both >= 3 it yields a grid
\* with pressure and prev_pressure all zero and no sources.
C9_SmallGridRejected ==
    call.op = "Canvas" =>
        IF call.args.x < 3 \/ call.args.y < 3
        THEN ~made /\ call.err = "InvalidDimension"
        ELSE /\ made /\ call.err = "none"
             /\ P = Zeros(width, height) /\ PPrev = Zeros(width, height)
             /\ persistent_sources = << >>

\* C10 (as claimed): advance_canvas with a boundary string other than
\* "periodic", "fixed", "reflective" fails with InvalidMode and leaves pressure
\* and prev_pressure unchanged.
C10_UnknownBoundaryRejected ==
    (made /\ call.op = "advance_canvas"
          /\ call.args.boundary \notin {"periodic", "fixed", "reflective"}) =>
        /\ call.err = "InvalidMode"
        /\ P = old.pressure
        /\ PPrev = old.prev_pressure

----------------------------------------------------------------------------
(* Properties of handle_input *)

\* C11: handle_input with a mode other than "pulse", "consistent", "remove"
\* raises and leaves pressure, prev_pressure and persistent_sources as they
\* were; with one of the three modes it does what add_pulse,
\* add_persistent_source or remove_persistent_source does (default amplitude
\* and radius), and nothing else.
C11_HandleInputDispatch ==
    (made /\ call.op = "handle_input") =>
        LET x == call.args.x
            y == call.args.y
            mode == call.args.mode
            s0 == old.persistent_sources
            pulsed == [c \in Cells(width, height) |->
                          IF InGrid(x, y) /\ c = At(x, y, height)
                          THEN FAdd(old.pressure[c], DefaultAmplitude)
                          ELSE old.pressure[c]]
        IN  /\ PPrev = old.prev_pressure
            /\ P = IF mode = "pulse" THEN pulsed ELSE old.pressure
            /\ persistent_sources =
                  IF mode = "consistent"
                  THEN (IF Count(s0, x, y) > 0 THEN s0 ELSE s0 \o << <<x, y>> >>)
                  ELSE IF mode = "remove" THEN RemovedSource(s0, x, y, DefaultRadius)
                  ELSE s0
            /\ call.err = IF mode \in {"pulse", "consistent", "remove"}
                          THEN "none" ELSE "ValueError"

\* C11 witness: a "remove" tap that took out the source a "consistent" tap had
\* placed, on a grid a "pulse" tap had changed
C11_Witness ==
    /\ made /\ call.op = "handle_input"
    /\ call.args.mode = "remove"
    /\ Len(old.persistent_sources) = 1
    /\ persistent_sources = << >>
    /\ P # Zeros(width, height)

----------------------------------------------------------------------------
(* Properties of a run of advance_canvas calls *)

\* C12: on a grid as constructed (all cells 0, no sources), after any number of
\* consecutive advance_canvas calls, whatever the boundary mode, damping, clip
\* and time, every cell of pressure and of prev_pressure is 0.
C12_FreshStaysZero ==
    made => /\ P = Zeros(width, height)
            /\ PPrev = Zeros(width, height)
            /\ persistent_sources = << >>

\* C12 witness: the second or a later call in a row has returned, one with a
\* damping factor applied and the clip enabled
C12_Witness ==
    /\ Advanced /\ nops >= 2
    /\ width >= 3 /\ height >= 3
    /\ ~QEq(call.args.cfg.damping, QInt(1))
    /\ call.args.cfg.clip # None
    /\ old.pressure = Zeros(width, height)

\* the cell of A at (i + di, j + dj), indices wrapping around the grid
Neighbour(A, i, j, di, dj) ==
    A[At(Wrap(i + di, width), Wrap(j + dj, height), height)]

\* the Moore stencil at (i, j) over the field A: the four orthogonal and the
\* four diagonal neighbours, minus 8 times the centre, over 3 dx dy
MooreStencil(A, i, j, dx, dy) ==
    LET n1 == FAdd(Neighbour(A, i, j, -1, 0), Neighbour(A, i, j, 1, 0))
        n2 == FAdd(n1, Neighbour(A, i, j, 0, -1))
        n3 == FAdd(n2, Neighbour(A, i, j, 0, 1))
        n4 == FAdd(n3, Neighbour(A, i, j, -1, -1))
        n5 == FAdd(n4, Neighbour(A, i, j, -1, 1))
        n6 == FAdd(n5, Neighbour(A, i, j, 1, -1))
        n7 == FAdd(n6, Neighbour(A, i, j, 1, 1))
        n8 == FSub(n7, FMulQ(El(A, i, j), QInt(8)))
    IN  FDivQ(n8, QMul(QInt(3), QMul(dx, dy)))

\* C13: with no sources, damping 1.0, the periodic boundary and no clip, every
\* cell of the new pressure is 2 P - P_prev + (sound_speed dt)^2 L, with L the
\* Moore stencil normalised by 1 / (3 dx dy), neighbours wrapping around the
\* grid and every value read from the pressure before the step.
C13_LeapfrogMooreStencil ==
    (/\ Advanced
     /\ old.persistent_sources = << >>
     /\ QEq(call.args.cfg.damping, QInt(1))
     /\ call.args.cfg.boundary = "periodic"
     /\ call.args.cfg.clip = None)
    => LET cfg == call.args.cfg
           c2 == QMul(cfg.sound_speed, cfg.dt)
           coeff == QMul(c2, c2)
       IN  \A i \in 0 .. width - 1, j \in 0 .. height - 1 :
               El(P, i, j) =
                   FAdd(FSub(FMulQ(El(old.pressure, i, j), QInt(2)),
                             El(old.prev_pressure, i, j)),
                        FMulQ(MooreStencil(old.pressure, i, j, cfg.dx, cfg.dy), coeff))

\* the orderings of a list
Orderings(s) ==
    {[k \in 1 .. Len(s) |-> s[f[k]]] : f \in Permutations(1 .. Len(s))}

\* C14: in one advance_canvas call every source cell inside the grid receives
\* the same value, computed once from source_amp, source_freq, time and dt,
\* added before the damping and before the boundary overwrite; so the new
\* pressure is the same for every ordering of persistent_sources.
C14_SourcesShareOneValue ==
    Advanced =>
        LET cfg == call.args.cfg
            srcs == old.persistent_sources
            c2 == QMul(cfg.sound_speed, cfg.dt)
            base == Leapfrog(old.pressure, old.prev_pressure, QMul(c2, c2),
                             Laplacian(old.pressure, cfg.dx, width, height))
            driven == srcs # << >> /\ ~QEq(cfg.source_amp, QInt(0))
            s_val == QToCell(SVal(cfg.source_amp, cfg.source_freq, QMul(cfg.time, cfg.dt)))
            injected == [c \in Cells(width, height) |->
                            IF driven /\ Count(srcs, RowOf(c, height), ColOf(c, height)) > 0
                            THEN FAdd(base[c], s_val)
                            ELSE base[c]]
        IN  /\ P = Safe(Bounded(Damped(injected, cfg.damping), cfg.boundary, width, height),
                        cfg.clip)
            /\ \A perm \in Orderings(srcs) :
                   PNext(old.pressure, old.prev_pressure, perm, cfg, width, height) = P

\* C14 witness: two sources inside the grid, driven at a non-zero value on a
\* silent periodic grid; both source cells end equal
C14_Witness ==
    /\ Advanced
    /\ Len(old.persistent_sources) = 2
    /\ Count(old.persistent_sources, 0, 0) = 1
    /\ Count(old.persistent_sources, 1, 1) = 1
    /\ old.pressure = Zeros(width, height)
    /\ call.args.cfg.boundary = "periodic"
    /\ ~QEq(call.args.cfg.damping, QInt(1))
    /\ El(P, 0, 0) # 0
    /\ El(P, 0, 0) = El(P, 1, 1)

----------------------------------------------------------------------------
(* Properties of main() *)

\* C15: in every iteration of the loop of main() the events fetched at its
\* start have all been handled when advance_canvas is called; advance_canvas
\* is called exactly once per iteration; canvas.pressure is read for display
\* only after that call has returned; and the time argument is 0 in the first
\* iteration and one more in each following one.
C15_DriverSequential ==
    /\ timestep = advances
    /\ reads <= advances
    /\ pc = "for" => /\ advances = frames - 1
                     /\ reads = frames - 1
                     /\ handled + Len(events) = fetched
                     /\ \/ call.op = "handle_input"
                        \/ frames = 1
                        \/ Advanced /\ P = displayed
    /\ pc = "draw" => /\ events = << >> /\ handled = fetched
                      /\ Advanced
                      /\ advances = frames
                      /\ reads = frames - 1
                      /\ QEq(call.args.cfg.time, QInt(frames - 1))
    /\ pc \in {"while", "done"} =>
          /\ advances = frames
          /\ reads = frames
          /\ frames > 0 => (Advanced /\ displayed = P)

\* C15 witness: the second iteration fetched two events, went through both,
\* the second of them through handle_input, stepped and displayed
C15_Witness ==
    /\ pc = "while"
    /\ frames = 2 /\ fetched = 2 /\ handled = 2
    /\ advances = 2 /\ reads = 2
    /\ current_mode = "consistent"
    /\ old.persistent_sources # << >>
    /\ old.persistent_sources[Len(old.persistent_sources)] = <<1, 1>>
    /\ displayed = P

----------------------------------------------------------------------------
(* Frame conditions *)

\* C16: advance_canvas never changes persistent_sources, width or height, and
\* pressure and prev_pressure keep the shape width x height;
\* add_persistent_source and remove_persistent_source never change pressure
\* or prev_pressure; add_pulse never changes prev_pressure or
\* persistent_sources.
C16_FrameConditions ==
    [][made =>
        /\ call'.op = "advance_canvas" =>
              /\ persistent_sources' = persistent_sources
              /\ width' = width /\ height' = height
              /\ DOMAIN mem'[pressure'] = Cells(width, height)
              /\ DOMAIN mem'[prev_pressure'] = Cells(width, height)
        /\ call'.op \in {"add_persistent_source", "remove_persistent_source"} =>
              /\ mem'[pressure'] = mem[pressure]
              /\ mem'[prev_pressure'] = mem[prev_pressure]
        /\ call'.op = "add_pulse" =>
              /\ mem'[prev_pressure'] = mem[prev_pressure]
              /\ persistent_sources' = persistent_sources]_vars

\* C16 witness: an add_pulse that changed a cell of a canvas holding a source
C16_Witness ==
    /\ made /\ call.op = "add_pulse"
    /\ P # old.pressure
    /\ persistent_sources # << >>
    /\ width >= 3 /\ height >= 3

====
